---- MODULE Spec2Model ----
(***************************************************************************)
(* Model of src/lookup_key.rs: the LookupKey field-lookup resolver.        *)
(*                                                                         *)
(* Construction (LookupKey::from_py, from_string, path_choice,             *)
(* PathItem::from_py) and the three retrieval operations (py_get_item,     *)
(* py_get_attr, json_get) are pure functions; they are modelled as         *)
(* operators and applied by the actions of a small state machine:          *)
(*   config --FromPy--> built --[FromString]--> built --retrieval--> done  *)
(*                                                                         *)
(* Option<T> is modelled as a sequence of length 0 (None) or 1 (Some).     *)
(* The interned Py<PyString> kept next to every String holds the same      *)
(* characters as the String, so a key is modelled by its String alone.     *)
(* Every retrieval operator returns, next to its result, the log of the    *)
(* host access primitives it called (getattr, getitem, dict lookup, JSON   *)
(* object/array lookup), in call order.                                    *)
(***************************************************************************)
EXTENDS Integers, Sequences, FiniteSets, TLC

VARIABLES cfg, built, lookup, op, input, out, log, pc

vars == <<cfg, built, lookup, op, input, out, log, pc>>

\* ------------------------------------------------------------------ bounds
\* most alias paths a configuration's plural list holds
MaxPaths == 2
\* most elements one configured alias path holds
MaxPathLen == 2

\* ---------------------------------------------------------------- helpers
None == <<>>
Some(x) == <<x>>
IsSome(o) == Len(o) = 1
Unwrap(o) == o[1]

SeqsUpTo(S, n) == UNION {[1..k -> S] : k \in 0..n}

MinOf(S) == CHOOSE x \in S : \A y \in S : x <= y

\* ---------------------------------------------------- the key alphabet
Keys == {"a", "b"}
NestedKeys == {"a"}

\* ------------------------------------------------------ PathItem, LookupKey
\* enum PathItem { S(String, Py<PyString>), I(usize) }
S(key) == [t |-> "S", key |-> key]
I(idx) == [t |-> "I", idx |-> idx]

\* enum LookupKey { Simple, Choice, PathChoices }
Simple(key) == [shape |-> "Simple", key |-> key]
Choice(key1, key2) == [shape |-> "Choice", key1 |-> key1, key2 |-> key2]
PathChoices(paths) == [shape |-> "PathChoices", paths |-> paths]
\* the field holds no LookupKey (yet)
NoLookup == [shape |-> "none"]

\* PyResult<T>
Ok(v) == [k |-> "ok", v |-> v]
Err(msg) == [k |-> "err", msg |-> msg]
NotBuilt == [k |-> "unset"]

\* ------------------------------------------------- raw configuration values
\* the Python objects a schema may put in an alias path: a str, a non-negative
\* int, and a negative int (neither extract::<String>() nor extract::<usize>()
\* succeeds on it); every alias path is a list
RawStr(s) == [r |-> "str", s |-> s]
RawInt(n) == [r |-> "int", n |-> n]
RawElems == {RawStr("a"), RawInt(0), RawInt(-1)}
RawPaths == SeqsUpTo(RawElems, MaxPathLen)
RawPlurals == SeqsUpTo(RawPaths, MaxPaths)

\* a field dict (its entries single_name and plural_name) and the alt_alias argument
Configs ==
    [single : {None, Some("a")},
     plural : {None} \cup {Some(p) : p \in RawPlurals},
     alt : {None, Some("b")}]

\* ------------------------------------------------------------- construction
\* PathItem::from_py with the first-item check dropped
PathItem_from_py_NoFirstCheck(index, obj) ==
    IF obj.r = "str" THEN Ok(S(obj.s))
    ELSE IF obj.r = "int" /\ obj.n >= 0 THEN Ok(I(obj.n))
    ELSE Err("Alias path items must be with a string or int")

\* PathItem::from_py(py, index, obj)
PathItem_from_py(index, obj) ==
    IF obj.r = "str" THEN Ok(S(obj.s))
    ELSE IF obj.r = "int" /\ obj.n >= 0 THEN
        IF index = 0
        THEN Err("The first item in an alias path must be a string")
        ELSE Ok(I(obj.n))
    ELSE Err("Alias path items must be with a string or int")

\* iter().map(f).collect::<PyResult<Vec<_>>>(): the first Err in order, else the Vec
CollectResults(rs) ==
    LET errs == {i \in 1..Len(rs) : rs[i].k = "err"}
    IN  IF errs # {} THEN rs[MinOf(errs)]
        ELSE Ok([i \in 1..Len(rs) |-> rs[i].v])

\* LookupKey::path_choice with the emptiness check dropped
LookupKey_path_choice_NoEmptyCheck(obj) ==
    CollectResults([i \in 1..Len(obj) |-> PathItem_from_py(i - 1, obj[i])])

\* LookupKey::path_choice(py, obj)
LookupKey_path_choice(obj) ==
    LET path == CollectResults([i \in 1..Len(obj) |-> PathItem_from_py(i - 1, obj[i])])
    IN  IF path.k = "err" THEN path
        ELSE IF path.v = <<>>
        THEN Err("Each alias path must have at least one element")
        ELSE Ok(path.v)

\* LookupKey::from_py that ignores alt_alias when an alias is given
LookupKey_from_py_NoChoice(field, alt_alias) ==
    IF IsSome(field.single) THEN
        IF IsSome(field.plural)
        THEN Err("'alias' and 'aliases' cannot be used together")
        ELSE Ok(Some(Simple(Unwrap(field.single))))
    ELSE IF IsSome(field.plural) THEN
        LET aliases == Unwrap(field.plural)
            locs == CollectResults([i \in 1..Len(aliases) |-> LookupKey_path_choice(aliases[i])])
        IN  IF locs.k = "err" THEN locs
            ELSE IF locs.v = <<>>
            THEN Err("aliases must have at least one element")
            ELSE IF IsSome(alt_alias)
            THEN Ok(Some(PathChoices(Append(locs.v, <<S(Unwrap(alt_alias))>>))))
            ELSE Ok(Some(PathChoices(locs.v)))
    ELSE Ok(None)

\* LookupKey::from_py that puts the alt_alias path first
LookupKey_from_py_AltFirst(field, alt_alias) ==
    IF IsSome(field.single) THEN
        IF IsSome(field.plural)
        THEN Err("'alias' and 'aliases' cannot be used together")
        ELSE IF IsSome(alt_alias)
        THEN Ok(Some(Choice(Unwrap(field.single), Unwrap(alt_alias))))
        ELSE Ok(Some(Simple(Unwrap(field.single))))
    ELSE IF IsSome(field.plural) THEN
        LET aliases == Unwrap(field.plural)
            locs == CollectResults([i \in 1..Len(aliases) |-> LookupKey_path_choice(aliases[i])])
        IN  IF locs.k = "err" THEN locs
            ELSE IF locs.v = <<>>
            THEN Err("aliases must have at least one element")
            ELSE IF IsSome(alt_alias)
            THEN Ok(Some(PathChoices(<< <<S(Unwrap(alt_alias))>> >> \o locs.v)))
            ELSE Ok(Some(PathChoices(locs.v)))
    ELSE Ok(None)

\* LookupKey::from_py(py, field, alt_alias, single_name, plural_name)
LookupKey_from_py(field, alt_alias) ==
    IF IsSome(field.single) THEN
        IF IsSome(field.plural)
        THEN Err("'alias' and 'aliases' cannot be used together")
        ELSE IF IsSome(alt_alias)
        THEN Ok(Some(Choice(Unwrap(field.single), Unwrap(alt_alias))))
        ELSE Ok(Some(Simple(Unwrap(field.single))))
    ELSE IF IsSome(field.plural) THEN
        LET aliases == Unwrap(field.plural)
            locs == CollectResults([i \in 1..Len(aliases) |-> LookupKey_path_choice(aliases[i])])
        IN  IF locs.k = "err" THEN locs
            ELSE IF locs.v = <<>>
            THEN Err("aliases must have at least one element")
            ELSE IF IsSome(alt_alias)
            THEN Ok(Some(PathChoices(Append(locs.v, <<S(Unwrap(alt_alias))>>))))
            ELSE Ok(Some(PathChoices(locs.v)))
    ELSE Ok(None)

\* LookupKey::from_string(py, key)
LookupKey_from_string(key) == Simple(key)

\* ------------------------------------------------------------ Python values
\* the host objects the retrievals read: int, str, list, dict, and an object
\* with attributes; an attribute may be a property that raises
PyInt(n) == [tag |-> "int", n |-> n]
PyStr == [tag |-> "str", s |-> "x"]
PyList(elems) == [tag |-> "list", elems |-> elems]
PyDict(items) == [tag |-> "dict", items |-> items]
PyObj(attrs) == [tag |-> "obj", attrs |-> attrs]
\* no entry under this key / no attribute of this name
Missing == [tag |-> "missing"]
\* an attribute whose getter raises an error that is no AttributeError
Raises == [tag |-> "raises"]

PyLeaves == {PyInt(1), PyInt(2), PyStr}
PyNestedLeaves == {PyInt(1), PyStr}
PyNested ==
    PyLeaves
    \cup {PyDict(f) : f \in [NestedKeys -> PyNestedLeaves \cup {Missing}]}
    \cup {PyList(e) : e \in SeqsUpTo(PyNestedLeaves, 1)}
    \cup {PyObj(f) : f \in [NestedKeys -> PyNestedLeaves \cup {Missing, Raises}]}
PyDicts == {PyDict(f) : f \in [Keys -> PyNested \cup {Missing}]}
PyObjs == {PyObj(f) : f \in [Keys -> PyNested \cup {Missing, Raises}]}

\* outcome of a host access primitive
Val(v) == [k |-> "val", v |-> v]
Absent == [k |-> "absent"]
Fault == [k |-> "fault"]

\* PyAny::get_item (PyObject_GetItem): KeyError / IndexError is Absent, any
\* other error (TypeError: not subscriptable, bad index type) is Fault.
\* The dicts of the model have string keys only, so an int key is a KeyError.
PyAny_get_item(v, seg) ==
    CASE v.tag = "dict" ->
            IF seg.t = "S" /\ seg.key \in DOMAIN v.items /\ v.items[seg.key] # Missing
            THEN Val(v.items[seg.key]) ELSE Absent
      [] v.tag = "list" ->
            IF seg.t = "I"
            THEN IF seg.idx < Len(v.elems) THEN Val(v.elems[seg.idx + 1]) ELSE Absent
            ELSE Fault
      [] v.tag = "str" ->
            IF seg.t = "I"
            THEN IF seg.idx < 1 THEN Val(PyStr) ELSE Absent
            ELSE Fault
      [] OTHER -> Fault

\* PyAny::getattr: AttributeError is Absent, any other error is Fault
PyAny_getattr(v, name) ==
    IF v.tag = "obj" /\ name \in DOMAIN v.attrs
    THEN CASE v.attrs[name] = Missing -> Absent
           [] v.attrs[name] = Raises -> Fault
           [] OTHER -> Val(v.attrs[name])
    ELSE Absent

\* PyDict::get_item: Option, no error for a string key
PyDict_get_item(d, key) ==
    IF key \in DOMAIN d.items /\ d.items[key] # Missing THEN Some(d.items[key]) ELSE None

\* one entry of the log of host calls
Call(prim, v, seg, res) == [prim |-> prim, on |-> v.tag, seg |-> seg, res |-> res]

\* --------------------------------------------------------------- JSON values
\* enum JsonInput: Object, Array and the scalar variants
JsonInt(n) == [tag |-> "Int", n |-> n]
JsonString == [tag |-> "String", s |-> "x"]
JsonArray(elems) == [tag |-> "Array", elems |-> elems]
JsonObject(members) == [tag |-> "Object", members |-> members]

JsonLeaves == {JsonInt(1), JsonInt(2), JsonString}
JsonNestedLeaves == {JsonInt(1), JsonString}
JsonNested ==
    JsonLeaves
    \cup {JsonObject(f) : f \in [NestedKeys -> JsonNestedLeaves \cup {Missing}]}
    \cup {JsonArray(e) : e \in SeqsUpTo(JsonNestedLeaves, 1)}
JsonObjects == {JsonObject(f) : f \in [Keys -> JsonNested \cup {Missing}]}

\* JsonObject::get(key)
JsonObject_get(members, key) ==
    IF key \in DOMAIN members /\ members[key] # Missing THEN Some(members[key]) ELSE None

\* Vec<JsonInput>::get(index)
JsonArray_get(elems, index) ==
    IF index < Len(elems) THEN Some(elems[index + 1]) ELSE None

\* ---------------------------------------------------------------- retrieval
\* a lookup fault: the Err(PyErr) a retrieval returns
LookupErr == Err("lookup fault")
\* a Rust panic (unwrap on None, unreachable!())
Panic == [k |-> "panic"]
\* Ok(Some((key, value)))
Found(key, value) == Ok(Some(<<key, value>>))
NotFound == Ok(None)

\* PathItem::py_get_item(&self, py_any) -> Option
PathItem_py_get_item(seg, py_any) ==
    IF py_any.tag = "str"
    THEN [r |-> None, log |-> <<>>]
    ELSE LET g == PyAny_get_item(py_any, seg)
         IN  [r |-> IF g.k = "val" THEN Some(g.v) ELSE None,
              log |-> <<Call("getitem", py_any, seg, g.k)>>]

\* py_get_attrs that returns Ok(None) for every error
py_get_attrs_SwallowAll(obj, attr_name) ==
    LET g == PyAny_getattr(obj, attr_name)
    IN  [r |-> IF g.k = "val" THEN Ok(Some(g.v)) ELSE Ok(None),
         log |-> <<Call("getattr", obj, S(attr_name), g.k)>>]

\* fn py_get_attrs(obj, attr_name) -> PyResult<Option>
py_get_attrs(obj, attr_name) ==
    LET g == PyAny_getattr(obj, attr_name)
    IN  [r |-> IF g.k = "val" THEN Ok(Some(g.v))
               ELSE IF g.k = "absent" THEN Ok(None)
               ELSE LookupErr,
         log |-> <<Call("getattr", obj, S(attr_name), g.k)>>]

\* PathItem::py_get_attrs without the dict test
PathItem_py_get_attrs_NoDictTest(seg, obj) ==
    IF seg.t = "S"
    THEN py_get_attrs(obj, seg.key)
    ELSE LET g == PathItem_py_get_item(seg, obj)
         IN  [r |-> Ok(g.r), log |-> g.log]

\* PathItem::py_get_attrs(&self, obj) -> PyResult<Option>
PathItem_py_get_attrs(seg, obj) ==
    IF seg.t = "S"
    THEN IF obj.tag = "dict"
         THEN LET g == PathItem_py_get_item(seg, obj)
              IN  [r |-> Ok(g.r), log |-> g.log]
         ELSE py_get_attrs(obj, seg.key)
    ELSE LET g == PathItem_py_get_item(seg, obj)
         IN  [r |-> Ok(g.r), log |-> g.log]

\* PathItem::json_obj_get(&self, json_obj) -> Option
PathItem_json_obj_get(seg, json_obj) ==
    IF seg.t = "S"
    THEN [r |-> JsonObject_get(json_obj, seg.key),
          log |-> <<[prim |-> "object_get", on |-> "Object", seg |-> seg,
                     res |-> IF IsSome(JsonObject_get(json_obj, seg.key)) THEN "val" ELSE "absent"]>>]
    ELSE [r |-> None, log |-> <<>>]

\* PathItem::json_get that indexes an array one past the segment's index
PathItem_json_get_OffByOne(seg, any_json) ==
    CASE any_json.tag = "Object" -> PathItem_json_obj_get(seg, any_json.members)
      [] any_json.tag = "Array" ->
            IF seg.t = "I"
            THEN [r |-> JsonArray_get(any_json.elems, seg.idx + 1),
                  log |-> <<[prim |-> "array_get", on |-> "Array", seg |-> seg,
                             res |-> IF IsSome(JsonArray_get(any_json.elems, seg.idx + 1))
                                     THEN "val" ELSE "absent"]>>]
            ELSE [r |-> None, log |-> <<>>]
      [] OTHER -> [r |-> None, log |-> <<>>]

\* PathItem::json_get(&self, any_json) -> Option
PathItem_json_get(seg, any_json) ==
    CASE any_json.tag = "Object" -> PathItem_json_obj_get(seg, any_json.members)
      [] any_json.tag = "Array" ->
            IF seg.t = "I"
            THEN [r |-> JsonArray_get(any_json.elems, seg.idx),
                  log |-> <<[prim |-> "array_get", on |-> "Array", seg |-> seg,
                             res |-> IF IsSome(JsonArray_get(any_json.elems, seg.idx))
                                     THEN "val" ELSE "absent"]>>]
            ELSE [r |-> None, log |-> <<>>]
      [] OTHER -> [r |-> None, log |-> <<>>]

\* PathItem::get_key of the path's last item
PathKey_Last(path) ==
    IF path = <<>> THEN Panic
    ELSE IF path[Len(path)].t = "S" THEN [k |-> "key", key |-> path[Len(path)].key]
    ELSE Panic

\* path.first().unwrap().get_key(): panics on an empty path (unwrap) and on
\* an I item (unreachable!())
PathKey(path) ==
    IF path = <<>> THEN Panic
    ELSE IF path[1].t = "S" THEN [k |-> "key", key |-> path[1].key]
    ELSE Panic

\* return Ok(Some((key, v))) with key = path.first().unwrap().get_key()
ReturnFound(path, v) ==
    IF PathKey(path).k = "panic" THEN Panic ELSE Found(PathKey(path).key, v)

\* path.iter().try_fold(d, |d, loc| loc.py_get_item(d)), from item i on
RECURSIVE try_fold_py_get_item(_, _, _, _)
try_fold_py_get_item(path, i, d, lg) ==
    IF i > Len(path) THEN [r |-> Some(d), log |-> lg]
    ELSE LET s == PathItem_py_get_item(path[i], d)
         IN  IF IsSome(s.r)
             THEN try_fold_py_get_item(path, i + 1, Unwrap(s.r), lg \o s.log)
             ELSE [r |-> None, log |-> lg \o s.log]

\* for path in path_choices { ... } of py_get_item, from path p on
RECURSIVE for_paths_py_get_item(_, _, _, _)
for_paths_py_get_item(path_choices, p, dict, lg) ==
    IF p > Len(path_choices) THEN [r |-> NotFound, log |-> lg]
    ELSE LET f == try_fold_py_get_item(path_choices[p], 1, dict, lg)
         IN  IF IsSome(f.r)
             THEN [r |-> ReturnFound(path_choices[p], Unwrap(f.r)), log |-> f.log]
             ELSE for_paths_py_get_item(path_choices, p + 1, dict, f.log)

\* LookupKey::py_get_item whose Choice tries key2 before key1
LookupKey_py_get_item_Key2First(self, dict) ==
    CASE self.shape = "Simple" ->
            LET g == PyDict_get_item(dict, self.key)
            IN  [r |-> IF IsSome(g) THEN Found(self.key, Unwrap(g)) ELSE NotFound,
                 log |-> <<Call("dict_get_item", dict, S(self.key),
                                IF IsSome(g) THEN "val" ELSE "absent")>>]
      [] self.shape = "Choice" ->
            LET g1 == PyDict_get_item(dict, self.key1)
                g2 == PyDict_get_item(dict, self.key2)
                c1 == Call("dict_get_item", dict, S(self.key1),
                           IF IsSome(g1) THEN "val" ELSE "absent")
                c2 == Call("dict_get_item", dict, S(self.key2),
                           IF IsSome(g2) THEN "val" ELSE "absent")
            IN  IF IsSome(g2) THEN [r |-> Found(self.key2, Unwrap(g2)), log |-> <<c2>>]
                ELSE IF IsSome(g1) THEN [r |-> Found(self.key1, Unwrap(g1)), log |-> <<c2, c1>>]
                ELSE [r |-> NotFound, log |-> <<c2, c1>>]
      [] self.shape = "PathChoices" ->
            for_paths_py_get_item(self.paths, 1, dict, <<>>)

\* LookupKey::py_get_item(&self, dict)
LookupKey_py_get_item(self, dict) ==
    CASE self.shape = "Simple" ->
            LET g == PyDict_get_item(dict, self.key)
            IN  [r |-> IF IsSome(g) THEN Found(self.key, Unwrap(g)) ELSE NotFound,
                 log |-> <<Call("dict_get_item", dict, S(self.key),
                                IF IsSome(g) THEN "val" ELSE "absent")>>]
      [] self.shape = "Choice" ->
            LET g1 == PyDict_get_item(dict, self.key1)
                g2 == PyDict_get_item(dict, self.key2)
                c1 == Call("dict_get_item", dict, S(self.key1),
                           IF IsSome(g1) THEN "val" ELSE "absent")
                c2 == Call("dict_get_item", dict, S(self.key2),
                           IF IsSome(g2) THEN "val" ELSE "absent")
            IN  IF IsSome(g1) THEN [r |-> Found(self.key1, Unwrap(g1)), log |-> <<c1>>]
                ELSE IF IsSome(g2) THEN [r |-> Found(self.key2, Unwrap(g2)), log |-> <<c1, c2>>]
                ELSE [r |-> NotFound, log |-> <<c1, c2>>]
      [] self.shape = "PathChoices" ->
            for_paths_py_get_item(self.paths, 1, dict, <<>>)

\* for loc in path { v = match loc.py_get_attrs(v) ... }, from item i on
RECURSIVE for_locs_py_get_attrs(_, _, _, _)
for_locs_py_get_attrs(path, i, v, lg) ==
    IF i > Len(path) THEN [r |-> Ok(Some(v)), log |-> lg]
    ELSE LET s == PathItem_py_get_attrs(path[i], v)
         IN  IF s.r.k = "err" THEN [r |-> s.r, log |-> lg \o s.log]
             ELSE IF IsSome(s.r.v)
             THEN for_locs_py_get_attrs(path, i + 1, Unwrap(s.r.v), lg \o s.log)
             ELSE [r |-> Ok(None), log |-> lg \o s.log]

\* 'outer: for path in path_choices { ... } of py_get_attr, from path p on
RECURSIVE for_paths_py_get_attr(_, _, _, _)
for_paths_py_get_attr(path_choices, p, obj, lg) ==
    IF p > Len(path_choices) THEN [r |-> NotFound, log |-> lg]
    ELSE LET f == for_locs_py_get_attrs(path_choices[p], 1, obj, lg)
         IN  IF f.r.k = "err" THEN f
             ELSE IF IsSome(f.r.v)
             THEN [r |-> ReturnFound(path_choices[p], Unwrap(f.r.v)), log |-> f.log]
             ELSE for_paths_py_get_attr(path_choices, p + 1, obj, f.log)

\* LookupKey::py_get_attr whose Choice does not fall back to key2
LookupKey_py_get_attr_NoFallback(self, obj) ==
    CASE self.shape = "Simple" ->
            LET g == py_get_attrs(obj, self.key)
            IN  [r |-> IF g.r.k = "err" THEN g.r
                       ELSE IF IsSome(g.r.v) THEN Found(self.key, Unwrap(g.r.v))
                       ELSE NotFound,
                 log |-> g.log]
      [] self.shape = "Choice" ->
            LET g1 == py_get_attrs(obj, self.key1)
            IN  IF g1.r.k = "err" THEN [r |-> g1.r, log |-> g1.log]
                ELSE IF IsSome(g1.r.v)
                THEN [r |-> Found(self.key1, Unwrap(g1.r.v)), log |-> g1.log]
                ELSE [r |-> NotFound, log |-> g1.log]
      [] self.shape = "PathChoices" ->
            for_paths_py_get_attr(self.paths, 1, obj, <<>>)

\* LookupKey::py_get_attr(&self, obj)
LookupKey_py_get_attr(self, obj) ==
    CASE self.shape = "Simple" ->
            LET g == py_get_attrs(obj, self.key)
            IN  [r |-> IF g.r.k = "err" THEN g.r
                       ELSE IF IsSome(g.r.v) THEN Found(self.key, Unwrap(g.r.v))
                       ELSE NotFound,
                 log |-> g.log]
      [] self.shape = "Choice" ->
            LET g1 == py_get_attrs(obj, self.key1)
                g2 == py_get_attrs(obj, self.key2)
            IN  IF g1.r.k = "err" THEN [r |-> g1.r, log |-> g1.log]
                ELSE IF IsSome(g1.r.v)
                THEN [r |-> Found(self.key1, Unwrap(g1.r.v)), log |-> g1.log]
                ELSE IF g2.r.k = "err" THEN [r |-> g2.r, log |-> g1.log \o g2.log]
                ELSE IF IsSome(g2.r.v)
                THEN [r |-> Found(self.key2, Unwrap(g2.r.v)), log |-> g1.log \o g2.log]
                ELSE [r |-> NotFound, log |-> g1.log \o g2.log]
      [] self.shape = "PathChoices" ->
            for_paths_py_get_attr(self.paths, 1, obj, <<>>)

\* path_iter.try_fold(v, |d, loc| loc.json_get(d)), from item i on
RECURSIVE try_fold_json_get(_, _, _, _)
try_fold_json_get(path, i, d, lg) ==
    IF i > Len(path) THEN [r |-> Some(d), log |-> lg]
    ELSE LET s == PathItem_json_get(path[i], d)
         IN  IF IsSome(s.r)
             THEN try_fold_json_get(path, i + 1, Unwrap(s.r), lg \o s.log)
             ELSE [r |-> None, log |-> lg \o s.log]

\* for path in path_choices { ... } of json_get, from path p on
RECURSIVE for_paths_json_get(_, _, _, _)
for_paths_json_get(path_choices, p, dict, lg) ==
    IF p > Len(path_choices) THEN [r |-> NotFound, log |-> lg]
    ELSE IF path_choices[p] = <<>> THEN [r |-> Panic, log |-> lg]
    ELSE LET first == PathItem_json_obj_get(path_choices[p][1], dict)
         IN  IF ~IsSome(first.r)
             THEN for_paths_json_get(path_choices, p + 1, dict, lg \o first.log)
             ELSE LET f == try_fold_json_get(path_choices[p], 2, Unwrap(first.r),
                                             lg \o first.log)
                  IN  IF IsSome(f.r)
                      THEN [r |-> ReturnFound(path_choices[p], Unwrap(f.r)), log |-> f.log]
                      ELSE for_paths_json_get(path_choices, p + 1, dict, f.log)

\* LookupKey::json_get(&self, dict)
LookupKey_json_get(self, dict) ==
    CASE self.shape = "Simple" ->
            LET g == JsonObject_get(dict, self.key)
            IN  [r |-> IF IsSome(g) THEN Found(self.key, Unwrap(g)) ELSE NotFound,
                 log |-> <<[prim |-> "object_get", on |-> "Object", seg |-> S(self.key),
                            res |-> IF IsSome(g) THEN "val" ELSE "absent"]>>]
      [] self.shape = "Choice" ->
            LET g1 == JsonObject_get(dict, self.key1)
                g2 == JsonObject_get(dict, self.key2)
                c1 == [prim |-> "object_get", on |-> "Object", seg |-> S(self.key1),
                       res |-> IF IsSome(g1) THEN "val" ELSE "absent"]
                c2 == [prim |-> "object_get", on |-> "Object", seg |-> S(self.key2),
                       res |-> IF IsSome(g2) THEN "val" ELSE "absent"]
            IN  IF IsSome(g1) THEN [r |-> Found(self.key1, Unwrap(g1)), log |-> <<c1>>]
                ELSE IF IsSome(g2) THEN [r |-> Found(self.key2, Unwrap(g2)), log |-> <<c1, c2>>]
                ELSE [r |-> NotFound, log |-> <<c1, c2>>]
      [] self.shape = "PathChoices" ->
            for_paths_json_get(self.paths, 1, dict, <<>>)

\* --------------------------------------------------------- the state machine
NoInput == [tag |-> "unset"]

Init ==
    /\ cfg \in Configs
    /\ built = NotBuilt
    /\ lookup = NoLookup
    /\ op = "none"
    /\ input = NoInput
    /\ out = NotBuilt
    /\ log = <<>>
    /\ pc = "config"

\* the schema compiler calls LookupKey::from_py and keeps the LookupKey it returns
FromPy ==
    /\ pc = "config"
    /\ built' = LookupKey_from_py([single |-> cfg.single, plural |-> cfg.plural], cfg.alt)
    /\ lookup' = IF built'.k = "ok" /\ IsSome(built'.v) THEN Unwrap(built'.v) ELSE NoLookup
    /\ pc' = "built"
    /\ UNCHANGED <<cfg, op, input, out, log>>

\* no custom lookup: the caller builds the LookupKey from the field's name
FromString ==
    /\ pc = "built"
    /\ built = Ok(None)
    /\ lookup = NoLookup
    /\ \E key \in Keys : lookup' = LookupKey_from_string(key)
    /\ UNCHANGED <<cfg, built, op, input, out, log, pc>>

PyGetItem ==
    /\ pc = "built"
    /\ lookup # NoLookup
    /\ \E dict \in PyDicts :
         LET got == LookupKey_py_get_item(lookup, dict)
         IN  input' = dict /\ out' = got.r /\ log' = got.log
    /\ op' = "py_get_item"
    /\ pc' = "done"
    /\ UNCHANGED <<cfg, built, lookup>>

PyGetAttr ==
    /\ pc = "built"
    /\ lookup # NoLookup
    /\ \E obj \in PyObjs \cup PyDicts :
         LET got == LookupKey_py_get_attr(lookup, obj)
         IN  input' = obj /\ out' = got.r /\ log' = got.log
    /\ op' = "py_get_attr"
    /\ pc' = "done"
    /\ UNCHANGED <<cfg, built, lookup>>

JsonGet ==
    /\ pc = "built"
    /\ lookup # NoLookup
    /\ \E dict \in JsonObjects :
         LET got == LookupKey_json_get(lookup, dict.members)
         IN  input' = dict /\ out' = got.r /\ log' = got.log
    /\ op' = "json_get"
    /\ pc' = "done"
    /\ UNCHANGED <<cfg, built, lookup>>

Next == FromPy \/ FromString \/ PyGetItem \/ PyGetAttr \/ JsonGet

Spec == Init /\ [][Next]_vars

\* ------------------------------------------------------- names for the claims
Done == pc = "done"
Built == pc # "config"

\* the retrieval operation named o, applied to LookupKey lk and input inp
Retrieve(o, lk, inp) ==
    CASE o = "py_get_item" -> LookupKey_py_get_item(lk, inp)
      [] o = "py_get_attr" -> LookupKey_py_get_attr(lk, inp)
      [] o = "json_get" -> LookupKey_json_get(lk, inp.members)

\* the walk of one path on its own under operation o: Ok(Some(value)) when every
\* segment resolves, Ok(None) when one is not-found, Err when one faults
PathRes(o, path, inp) ==
    CASE o = "py_get_item" -> Ok(try_fold_py_get_item(path, 1, inp, <<>>).r)
      [] o = "py_get_attr" -> for_locs_py_get_attrs(path, 1, inp, <<>>).r
      [] o = "json_get" -> Ok(try_fold_json_get(path, 1, inp, <<>>).r)

\* the walks of all paths, each on its own
PathResults(o, paths, inp) == [i \in 1..Len(paths) |-> PathRes(o, paths[i], inp)]
Resolved(rs) == {i \in 1..Len(rs) : rs[i].k = "ok" /\ IsSome(rs[i].v)}
Faulted(rs) == {i \in 1..Len(rs) : rs[i].k = "err"}

\* the outcome of the single-segment access of name on the top-level input
\* under operation o, read off the input itself
TopAccess(o, inp, name) ==
    CASE o = "py_get_item" ->
            IF inp.items[name] # Missing THEN Val(inp.items[name]) ELSE Absent
      [] o = "py_get_attr" ->
            IF inp.tag # "obj" \/ inp.attrs[name] = Missing THEN Absent
            ELSE IF inp.attrs[name] = Raises THEN Fault
            ELSE Val(inp.attrs[name])
      [] o = "json_get" ->
            IF inp.members[name] # Missing THEN Val(inp.members[name]) ELSE Absent

\* C1: for a PathChoices resolver, in each retrieval operation, the result is
\* (string of the first segment, final value) of the lowest-indexed path whose
\* segments all resolve, whatever later paths do, and it is not-found exactly
\* when no path resolves and none faults
C1_FirstResolvedPathWins ==
    (Done /\ lookup.shape = "PathChoices") =>
        LET rs == PathResults(op, lookup.paths, input)
            res == Resolved(rs)
            flt == Faulted(rs)
            first == MinOf(res)
        IN  /\ (res # {} /\ \A j \in flt : j > first) =>
                  out = Found(lookup.paths[first][1].key, Unwrap(rs[first].v))
            /\ (out = NotFound) <=> (res = {} /\ flt = {})

\* a later path decides although an earlier one was abandoned and a still later
\* one would resolve too
C1_Witness ==
    /\ Done /\ lookup.shape = "PathChoices" /\ Len(lookup.paths) = 3
    /\ Resolved(PathResults(op, lookup.paths, input)) = {2, 3}
    /\ out.k = "ok" /\ IsSome(out.v) /\ out.v[1][1] = "a"

HasFault(lg) == \E i \in 1..Len(lg) : lg[i].res = "fault"

\* C2 (as claimed): every fault of an access primitive is returned as a fault
\* and is the last access made
C2_EveryFaultPropagates ==
    (Done /\ HasFault(log)) => (out = LookupErr /\ log[Len(log)].res = "fault")

\* C2 (amended): a fault of attribute access (getattr) is returned as a fault
\* and nothing is accessed after it; a fault of item/index access (get_item in
\* PathItem::py_get_item) is never returned: a fault is returned only for a
\* getattr fault
C2_GetattrFaultsPropagate ==
    Done =>
        /\ \A i \in 1..Len(log) :
              (log[i].res = "fault" /\ log[i].prim = "getattr") =>
                  (i = Len(log) /\ out = LookupErr)
        /\ (out = LookupErr) =>
              (log # <<>> /\ log[Len(log)].res = "fault" /\ log[Len(log)].prim = "getattr")
        /\ out.k \in {"ok", "err"}

\* an item-access fault was turned into not-found, the next path was tried, and
\* its attribute access faulted and was returned
C2_Witness ==
    /\ Done /\ op = "py_get_attr" /\ out = LookupErr
    /\ \E i \in 1..Len(log) : log[i].res = "fault" /\ log[i].prim = "getitem"

\* the access rule of the attribute-object retrieval, for one logged call
AttrRule(c) ==
    IF c.seg.t = "S"
    THEN IF c.on = "dict" THEN c.prim = "getitem" ELSE c.prim = "getattr"
    ELSE c.prim = "getitem"

\* C3 (as claimed): in py_get_attr, for every resolver shape and at every step,
\* a string key on a mapping uses item access and otherwise attribute access,
\* and an int index uses item access
C3_AccessRuleEveryShape ==
    (Done /\ op = "py_get_attr") => \A i \in 1..Len(log) : AttrRule(log[i])

\* C3 (amended): the rule holds at every step of a PathChoices resolver; a
\* Simple or Choice resolver always uses attribute access, also on a mapping
C3_AccessRulePathChoices ==
    (Done /\ op = "py_get_attr") =>
        IF lookup.shape = "PathChoices"
        THEN \A i \in 1..Len(log) : AttrRule(log[i])
        ELSE /\ log # <<>>
             /\ \A i \in 1..Len(log) : log[i].prim = "getattr"

\* a path walked from an object (attribute access) into a mapping (item access)
C3_Witness ==
    /\ Done /\ op = "py_get_attr" /\ lookup.shape = "PathChoices" /\ Len(log) >= 2
    /\ log[1].prim = "getattr" /\ log[1].on = "obj"
    /\ log[2].prim = "getitem" /\ log[2].on = "dict" /\ log[2].seg.t = "S"
    /\ out.k = "ok" /\ IsSome(out.v)

\* C4: Choice(name1, name2) gives (name1, value) when name1 resolves, else
\* (name2, value) when name2 resolves, else not-found; Simple(name) gives
\* (name, value) when name resolves and not-found otherwise
C4_SimpleAndChoice ==
    Done =>
        CASE lookup.shape = "Simple" ->
                LET a == TopAccess(op, input, lookup.key)
                IN  /\ a.k = "val" => out = Found(lookup.key, a.v)
                    /\ a.k = "absent" => out = NotFound
          [] lookup.shape = "Choice" ->
                LET a1 == TopAccess(op, input, lookup.key1)
                    a2 == TopAccess(op, input, lookup.key2)
                IN  /\ a1.k = "val" => out = Found(lookup.key1, a1.v)
                    /\ (a1.k = "absent" /\ a2.k = "val") => out = Found(lookup.key2, a2.v)
                    /\ (a1.k = "absent" /\ a2.k = "absent") => out = NotFound
          [] OTHER -> TRUE

\* the second alias supplied the value because the first was absent
C4_Witness ==
    /\ Done /\ lookup.shape = "Choice"
    /\ TopAccess(op, input, lookup.key1).k = "absent"
    /\ TopAccess(op, input, lookup.key2).k = "val"
    /\ out.k = "ok" /\ IsSome(out.v) /\ out.v[1][1] = lookup.key2

\* the configuration faults of a plural list
EmptyPath(pl) == \E i \in 1..Len(pl) : pl[i] = <<>>
IntFirst(pl) == \E i \in 1..Len(pl) : pl[i] # <<>> /\ pl[i][1].r = "int"
BadElement(pl) ==
    \E i \in 1..Len(pl) : \E j \in 1..Len(pl[i]) :
        pl[i][j].r # "str" /\ ~(pl[i][j].r = "int" /\ pl[i][j].n >= 0)

\* C5: construction fails, and leaves no Resolver, when single_name and
\* plural_name are both present, when plural_name is empty, when a path is
\* empty, when a path starts with an integer, and when a path element is
\* neither a string nor a non-negative integer
C5_ConfigFaults ==
    Built =>
        LET bad == \/ (IsSome(cfg.single) /\ IsSome(cfg.plural))
                   \/ (IsSome(cfg.plural) /\
                         \/ Unwrap(cfg.plural) = <<>>
                         \/ EmptyPath(Unwrap(cfg.plural))
                         \/ IntFirst(Unwrap(cfg.plural))
                         \/ BadElement(Unwrap(cfg.plural)))
        IN  bad => (built.k = "err" /\ lookup = NoLookup)

\* a path whose first element is a non-negative integer was rejected
C5_Witness ==
    /\ Built /\ built = Err("The first item in an alias path must be a string")
    /\ IsSome(cfg.plural) /\ IntFirst(Unwrap(cfg.plural))

\* C6: when construction does not fail, single_name alone gives Choice with
\* alt_alias and Simple without, neither single_name nor plural_name gives no
\* Resolver whatever alt_alias is, and plural_name alone gives PathChoices
C6_ShapeByConfig ==
    (Built /\ built.k = "ok") =>
        /\ (IsSome(cfg.single) /\ ~IsSome(cfg.plural)) =>
              built = Ok(Some(IF IsSome(cfg.alt)
                              THEN Choice(Unwrap(cfg.single), Unwrap(cfg.alt))
                              ELSE Simple(Unwrap(cfg.single))))
        /\ (~IsSome(cfg.single) /\ ~IsSome(cfg.plural)) => built = Ok(None)
        /\ (~IsSome(cfg.single) /\ IsSome(cfg.plural)) =>
              (IsSome(built.v) /\ Unwrap(built.v).shape = "PathChoices")
        /\ ~(IsSome(cfg.single) /\ IsSome(cfg.plural))

C6_Witness ==
    Built /\ IsSome(cfg.alt) /\ built = Ok(Some(Choice("a", "b")))

\* a configured path element as a Segment
AsSegment(e) == IF e.r = "str" THEN S(e.s) ELSE I(e.n)
AsPaths(pl) == [i \in 1..Len(pl) |-> [j \in 1..Len(pl[i]) |-> AsSegment(pl[i][j])]]

\* C7: a PathChoices built from n configured paths holds them in order, followed
\* last by [StringKey(alt_alias)] when alt_alias is given and by nothing
\* otherwise; so a retrieval returns the alt_alias value only when none of the
\* n configured paths resolves
C7_AltAliasLast ==
    (Built /\ built.k = "ok" /\ IsSome(cfg.plural)) =>
        LET n == Len(Unwrap(cfg.plural))
            paths == Unwrap(built.v).paths
        IN  /\ n >= 1
            /\ paths = IF IsSome(cfg.alt)
                       THEN AsPaths(Unwrap(cfg.plural)) \o << <<S(Unwrap(cfg.alt))>> >>
                       ELSE AsPaths(Unwrap(cfg.plural))
            /\ (Done /\ IsSome(cfg.alt) /\ out.k = "ok") =>
                  LET rs == PathResults(op, paths, input)
                      res == Resolved(rs) \cap (1..n)
                      first == MinOf(res)
                  IN  IF res # {}
                      THEN out = Found(paths[first][1].key, Unwrap(rs[first].v))
                      ELSE LET a == PathRes(op, <<S(Unwrap(cfg.alt))>>, input)
                           IN  IF a.k = "ok" /\ IsSome(a.v)
                               THEN out = Found(Unwrap(cfg.alt), Unwrap(a.v))
                               ELSE out = NotFound

\* the alt_alias path supplied the value after two configured paths failed
C7_Witness ==
    /\ Done /\ IsSome(cfg.alt) /\ IsSome(cfg.plural) /\ Len(Unwrap(cfg.plural)) = 2
    /\ out.k = "ok" /\ IsSome(out.v) /\ out.v[1][1] = Unwrap(cfg.alt)

WellFormed(lk) ==
    lk.shape = "PathChoices" =>
        /\ Len(lk.paths) >= 1
        /\ \A i \in 1..Len(lk.paths) :
              Len(lk.paths[i]) >= 1 /\ lk.paths[i][1].t = "S"

\* C8: every Resolver construction returns holds at least one path, every path
\* holds at least one segment and starts with a StringKey; no retrieval on a
\* constructed Resolver reaches the unwrap of an empty path or the unreachable
\* IntIndex branch of get_key
C8_WellFormedNoPanic ==
    /\ WellFormed(lookup)
    /\ (built.k = "ok" /\ IsSome(built.v)) => WellFormed(Unwrap(built.v))
    /\ out # Panic
    /\ Done => (lookup # NoLookup /\ out.k \in {"ok", "err"})

\* a path with an index segment matched and get_key named its first segment
C8_Witness ==
    /\ Done /\ lookup.shape = "PathChoices"
    /\ \E i \in 1..Len(lookup.paths) :
          /\ Len(lookup.paths[i]) = 2 /\ lookup.paths[i][2].t = "I"
          /\ Resolved(PathResults(op, lookup.paths, input)) = {i}
    /\ out.k = "ok" /\ IsSome(out.v) /\ out.v[1][1] = "a"

\* one step of a JSON path as the table states it: a string key resolves on an
\* object that holds the key, an int index on an array with the index in range,
\* nothing else resolves
JsonStepRule(seg, node) ==
    IF seg.t = "S" /\ node.tag = "Object"
    THEN IF node.members[seg.key] # Missing THEN Some(node.members[seg.key]) ELSE None
    ELSE IF seg.t = "I" /\ node.tag = "Array"
    THEN IF seg.idx + 1 \in DOMAIN node.elems THEN Some(node.elems[seg.idx + 1]) ELSE None
    ELSE None

RECURSIVE JsonWalkRule(_, _, _)
JsonWalkRule(path, i, node) ==
    IF i > Len(path) THEN Some(node)
    ELSE IF IsSome(JsonStepRule(path[i], node))
    THEN JsonWalkRule(path, i + 1, Unwrap(JsonStepRule(path[i], node)))
    ELSE None

\* C9: json_get resolves a string key only on an object holding it and an int
\* index only on an array with the index in range, every other combination makes
\* the path not-found, and json_get never returns a fault
C9_JsonRule ==
    (Done /\ op = "json_get") =>
        /\ out.k = "ok"
        /\ LET paths == CASE lookup.shape = "Simple" -> << <<S(lookup.key)>> >>
                          [] lookup.shape = "Choice" -> << <<S(lookup.key1)>>, <<S(lookup.key2)>> >>
                          [] OTHER -> lookup.paths
               ok == {i \in 1..Len(paths) : IsSome(JsonWalkRule(paths[i], 1, input))}
           IN  IF ok = {} THEN out = NotFound
               ELSE out = Found(paths[MinOf(ok)][1].key,
                                Unwrap(JsonWalkRule(paths[MinOf(ok)], 1, input)))

\* an index segment resolved in an array
C9_Witness ==
    /\ Done /\ op = "json_get" /\ out.k = "ok" /\ IsSome(out.v)
    /\ log # <<>> /\ log[Len(log)].prim = "array_get" /\ log[Len(log)].res = "val"

\* the PathChoices that a Simple or Choice resolver is compared with
AsPathChoices(lk) ==
    IF lk.shape = "Simple" THEN PathChoices(<< <<S(lk.key)>> >>)
    ELSE PathChoices(<< <<S(lk.key1)>>, <<S(lk.key2)>> >>)

\* C10 (as claimed): in each retrieval operation and on every input, Simple(k)
\* returns what PathChoices([[k]]) returns and Choice(a, b) what
\* PathChoices([[a], [b]]) returns
C10_SameAsPathChoices ==
    (Done /\ lookup.shape \in {"Simple", "Choice"}) =>
        out = Retrieve(op, AsPathChoices(lookup), input).r

\* C10 (amended): the equality holds in py_get_item and json_get on every
\* input, and in py_get_attr on every input that is not a mapping; and no walk
\* ever indexes a string value
C10_SameAsPathChoicesOffMappings ==
    /\ (Done /\ lookup.shape \in {"Simple", "Choice"}
             /\ ~(op = "py_get_attr" /\ input.tag = "dict")) =>
           out = Retrieve(op, AsPathChoices(lookup), input).r
    /\ \A i \in 1..Len(log) : ~(log[i].prim = "getitem" /\ log[i].on = "str")

\* a Choice in py_get_attr on an object: the first alias is absent, the second found
C10_Witness ==
    /\ Done /\ lookup.shape = "Choice" /\ op = "py_get_attr" /\ input.tag = "obj"
    /\ out.k = "ok" /\ IsSome(out.v) /\ out.v[1][1] = "b"
    /\ Retrieve(op, AsPathChoices(lookup), input).r = out

====
